---------------------------- MODULE Spec2Model ----------------------------
(***************************************************************************)
(* A model of pysobus/parser.py: the J1939/ISOBUS header decoder           *)
(* (msg_to_header_info_and_payload), the bitfield decoder                  *)
(* (SPN.parse_from_int), the group decoder (PGN.parse_from_info_dict), the *)
(* 7-fragment reassembly decoder (PGN129029.parse_from_info_dict) and the  *)
(* registry (Parser.__init__, Parser.parse_message).                       *)
(*                                                                         *)
(* Python integers are unbounded.  The payload integer of a frame has 64   *)
(* bits and the reassembled one 392, so an unbounded non-negative integer  *)
(* is modelled as the sequence of its binary digits, least significant     *)
(* first, with no leading (high) zero digit; a signed one is a record      *)
(* [neg, mag].  Numbers that stay below 2^31 (header fields, pgn, source,  *)
(* dictionary keys) are TLA+ integers.                                     *)
(***************************************************************************)
EXTENDS Integers, Sequences, FiniteSets, TLC

VARIABLES
    defs,                       \* the definition table handed to Parser.__init__
    parser,                     \* the Parser object: its state and pgn_src_to_parser
    group_to_timestamp,         \* PGN129029.__group_to_timestamp
    group_to_seq_to_payload,    \* PGN129029.__group_to_seq_to_payload
    call,                       \* the operation last invoked, with its arguments
    ret                         \* what that invocation returned, raised and logged

vars == <<defs, parser, group_to_timestamp, group_to_seq_to_payload, call, ret>>

Max(a, b) == IF a >= b THEN a ELSE b
Min(a, b) == IF a <= b THEN a ELSE b
Abs(a) == IF a < 0 THEN 0 - a ELSE a

(***************************************************************************)
(* Unbounded integers.                                                     *)
(***************************************************************************)

\* The index of the highest non-zero digit among the first i, or 0.
RECURSIVE TopDigit(_, _)
TopDigit(bits, i) ==
    IF i = 0 THEN 0 ELSE IF bits[i] = 1 THEN i ELSE TopDigit(bits, i - 1)

\* Drop the high zero digits: the digits of an integer, canonical.
Norm(bits) == SubSeq(bits, 1, TopDigit(bits, Len(bits)))

RECURSIVE NatToBits(_)
NatToBits(n) == IF n = 0 THEN <<>> ELSE <<n % 2>> \o NatToBits(n \div 2)

RECURSIVE BitsToNat(_)
BitsToNat(bits) ==
    IF bits = <<>> THEN 0 ELSE bits[1] + 2 * BitsToNat(Tail(bits))

\* x >> n
Shr(x, n) == SubSeq(x, n + 1, Len(x))

\* x & ((1 << n) - 1)
LowBits(x, n) == Norm(SubSeq(x, 1, Min(n, Len(x))))

\* x & (1 << i), as a truth value
TestBit(x, i) == i + 1 \in 1..Len(x) /\ x[i + 1] = 1

\* digits * s + c for s >= 0 and c >= 0
RECURSIVE MulAddNat(_, _, _)
MulAddNat(bits, s, c) ==
    IF bits = <<>> THEN NatToBits(c)
    ELSE LET t == bits[1] * s + c
         IN  <<t % 2>> \o MulAddNat(Tail(bits), s, t \div 2)

\* digits - k - b for 0 <= k, b and digits >= k + b
RECURSIVE SubNat(_, _, _)
SubNat(bits, k, b) ==
    IF bits = <<>> \/ (k = 0 /\ b = 0) THEN bits
    ELSE LET t == bits[1] - (k % 2) - b
         IN  <<t % 2>> \o SubNat(Tail(bits), k \div 2, IF t < 0 THEN 1 ELSE 0)

\* digits >= k, for a small k
GeqNat(bits, k) == Len(bits) > Len(NatToBits(k)) \/ BitsToNat(bits) >= k

PyInt(neg, mag) == [neg |-> neg /\ mag # <<>>, mag |-> mag]

FromInt(n) == PyInt(n < 0, NatToBits(Abs(n)))

ToInt(x) == IF x.neg THEN 0 - BitsToNat(x.mag) ELSE BitsToNat(x.mag)

\* x - (1 << n) for 0 <= x < (1 << n): minus the two's complement of x
SubPow2(x, n) ==
    LET padded == [i \in 1..n |-> IF i <= Len(x) THEN x[i] ELSE 0]
        ones   == {i \in 1..n : padded[i] = 1}
        low    == IF ones = {} THEN n + 1
                  ELSE CHOOSE i \in ones : \A j \in ones : i <= j
        compl  == [i \in 1..n + 1 |->
                       IF i = n + 1 THEN (IF ones = {} THEN 1 ELSE 0)
                       ELSE IF i <= low THEN padded[i] ELSE 1 - padded[i]]
    IN  PyInt(TRUE, Norm(compl))

\* x * s + o for an unbounded x and small integers s and o
MulAdd(x, s, o) ==
    LET p    == Norm(MulAddNat(x.mag, Abs(s), 0))
        pneg == (x.neg # (s < 0)) /\ p # <<>>
    IN  IF o = 0 THEN PyInt(pneg, p)
        ELSE IF pneg = (o < 0) THEN PyInt(pneg, MulAddNat(p, 1, Abs(o)))
        ELSE IF GeqNat(p, Abs(o)) THEN PyInt(pneg, Norm(SubNat(p, Abs(o), 0)))
        ELSE PyInt(o < 0, NatToBits(Abs(o) - BitsToNat(p)))


(***************************************************************************)
(* Values of the Python code.                                              *)
(***************************************************************************)

\* The value None, and an exception leaving a function.
None == [none |-> TRUE]
Raise(e) == [raised |-> e]
Raised(r) == "raised" \in DOMAIN r

\* A character of a hex string is its digit value; NonHex is a character
\* that int(s, 16) rejects.
NonHex == 16
HexDigits == 0..15

RECURSIVE HexToInt(_)
HexToInt(chars) ==
    IF chars = <<>> THEN 0
    ELSE HexToInt(SubSeq(chars, 1, Len(chars) - 1)) * 16 + chars[Len(chars)]

\* int(s, 16): ValueError for the empty string or a character that is no digit
IsHexLiteral(chars) == chars # <<>> /\ \A i \in 1..Len(chars) : chars[i] \in HexDigits

\* The 8 binary digits of each payload byte, least significant first.
ByteBits == [b \in 0..255 |-> [i \in 1..8 |-> (b \div 2^(i - 1)) % 2]]

RECURSIVE BytesToBits(_)
BytesToBits(payload_bytes) ==
    IF payload_bytes = <<>> THEN <<>>
    ELSE IF Len(payload_bytes) = 1 THEN ByteBits[payload_bytes[1]]
    ELSE LET half == Len(payload_bytes) \div 2
         IN  BytesToBits(SubSeq(payload_bytes, 1, half))
                 \o BytesToBits(SubSeq(payload_bytes, half + 1, Len(payload_bytes)))

\* int(''.join(reversed(payload_bytes)), 16): the byte at the highest index
\* is the most significant one.
BytesToInt(payload_bytes) == Norm(BytesToBits(payload_bytes))

(***************************************************************************)
(* msg_to_header_info_and_payload.  A hex message is the record            *)
(* [header_hex, payload_bytes]: its first 8 characters, and the bytes that *)
(* re.findall('[0-9a-fA-F]{2}', hex_message[8:]) finds in the rest.        *)
(***************************************************************************)

MASK_2_BIT == 3
MASK_3_BIT == 7
MASK_8_BIT == 255
PDU2_MIN == 240

\* x & mask for a mask of the form (1 << n) - 1
And(x, mask) == x % (mask + 1)

\* pdu format 2 without its first value
BroadcastMut(pdu_pf) == pdu_pf > PDU2_MIN
\* pdu format 2, a broadcast message: PDU PS extends the identifier
Broadcast(pdu_pf) == pdu_pf >= PDU2_MIN

\* a priority of 2 bits
PriorityMut(header) == And(header, MASK_2_BIT)
\* priority = header & MASK_3_BIT
Priority(header) == And(header, MASK_3_BIT)

msg_to_header_info_and_payload(hex_message, timestamp) ==
    IF ~IsHexLiteral(hex_message.header_hex) THEN Raise("ValueError")
    ELSE
    LET header0  == HexToInt(hex_message.header_hex)
        src      == And(header0, MASK_8_BIT)
        header1  == header0 \div 2^8
        pdu_ps   == And(header1, MASK_8_BIT)
        header2  == header1 \div 2^8
        pdu_pf   == And(header2, MASK_8_BIT)
        header3  == header2 \div 2^8
        res_dp   == And(header3, MASK_2_BIT)
        header4  == header3 \div 2^2
        priority == Priority(header4)
        pgn0     == (res_dp * 2^8 + pdu_pf) * 2^8
        pgn      == IF Broadcast(pdu_pf) THEN pgn0 + pdu_ps ELSE pgn0
    IN  IF hex_message.payload_bytes = <<>> THEN Raise("ValueError")
        ELSE [pgn           |-> pgn,
              source        |-> src,
              priority      |-> priority,
              payload_int   |-> BytesToInt(hex_message.payload_bytes),
              payload_bytes |-> hex_message.payload_bytes,
              header        |-> hex_message.header_hex,
              timestamp     |-> timestamp]

(***************************************************************************)
(* SPN.  scale and offset are integers in units of 10^exp (the scale 1e-16 *)
(* of PGN129029 is scale 1, exp -16), and a decoded value is the record    *)
(* [neg, mag, exp]: an exact number where the code computes a float.       *)
(***************************************************************************)

\* SPN.__init__; position is given in tenths (1.5 is 15): the code's
\* int(position) and int(position * 10) % 10.
SPN(spn_name, position10, num_bits, scale, offset, exp, signed) ==
    LET byte_offs == (position10 \div 10) - 1
        bit_offs  == Max(0, (position10 % 10) - 1)
    IN  [spn_name |-> spn_name,
         nbits    |-> num_bits,
         scale    |-> scale,
         offset   |-> offset,
         exp      |-> exp,
         signed   |-> signed,
         pos      |-> byte_offs * 8 + bit_offs]

\* the bit above the field, which is never set
SignBitMut(self) == self.nbits
\* the bit that makes a signed field negative: 1 << (nbits - 1)
SignBit(self) == self.nbits - 1

\* x = payload_int >> self.pos; x &= (1 << self.nbits) - 1
Field(self, payload_int) == LowBits(Shr(payload_int, self.pos), self.nbits)

parse_from_int(self, payload_int) ==
    LET x0 == Field(self, payload_int)
        x  == IF self.signed /\ TestBit(x0, SignBit(self))
              THEN SubPow2(x0, self.nbits)
              ELSE PyInt(FALSE, x0)
        v  == MulAdd(x, self.scale, self.offset)
    IN  [neg |-> v.neg, mag |-> v.mag, exp |-> self.exp]

\* A decoded value used as a dictionary key or compared with an integer.
AsInt(v) == ToInt(v)

(***************************************************************************)
(* Dictionaries.  A dict is a function whose domain is its set of keys.    *)
(* The opcode key None is the empty tuple and the opcode k is <<k>>.       *)
(***************************************************************************)

EmptyDict == <<>>

DictSet(d, k, v) == [x \in DOMAIN d \cup {k} |-> IF x = k THEN v ELSE d[x]]

NoOpcode == <<>>
Opcode(k) == <<k>>

\* bool(key) of an opcode key: None and 0 are false
Truthy(key) == key # NoOpcode /\ key[1] # 0

(***************************************************************************)
(* PGN: the group decoder.  opcode_to_spns is [default, items]: default    *)
(* says that it is a collections.defaultdict(list), whose lookup of a      *)
(* missing key stores and returns an empty list.                           *)
(***************************************************************************)

PGN(pgn, num_bytes, source_address, opcode_to_spns, opcode_parser) ==
    [pgn            |-> pgn,
     nbytes         |-> num_bytes,
     source_address |-> source_address,
     opcode_to_spns |-> opcode_to_spns,
     opcode_parser  |-> opcode_parser]

\* d[k], the value
GetItem(d, k) == IF k \in DOMAIN d.items THEN d.items[k] ELSE <<>>

\* d[k], the dictionary afterwards
AfterGetItem(d, k) ==
    IF k \in DOMAIN d.items \/ ~d.default THEN d
    ELSE [d EXCEPT !.items = DictSet(d.items, k, <<>>)]

\* {s.spn_name: s.parse_from_int(payload_int) for s in spns}
SpnVals(spns, payload_int) ==
    [name \in {spns[i].spn_name : i \in 1..Len(spns)} |->
        LET last == CHOOSE i \in 1..Len(spns) :
                        /\ spns[i].spn_name = name
                        /\ \A j \in 1..Len(spns) : spns[j].spn_name = name => j <= i
        IN  parse_from_int(spns[last], payload_int)]

\* PGN.parse_from_info_dict: [value, self], what the call returns or raises
\* and the decoder after it.
PGN_parse_from_info_dict(self, info) ==
    IF info.pgn # self.pgn THEN [value |-> Raise("RuntimeError"), self |-> self]
    ELSE IF info.source # self.source_address
    THEN [value |-> Raise("RuntimeError"), self |-> self]
    ELSE
    LET opcode == IF self.opcode_parser # None
                  THEN Opcode(AsInt(parse_from_int(self.opcode_parser, info.payload_int)))
                  ELSE NoOpcode
    IN  [value |-> [pgn      |-> self.pgn,
                    info     |-> info,
                    spn_vals |-> SpnVals(GetItem(self.opcode_to_spns, opcode),
                                         info.payload_int)],
         self  |-> [self EXCEPT !.opcode_to_spns = AfterGetItem(@, opcode)]]

(***************************************************************************)
(* PGN129029: the reassembly decoder.  A buffered fragment is the record   *)
(* [data, group, stale]: data is what the code stores, payload_bytes[1:];  *)
(* group and stale are history, not program state: the sequence group of   *)
(* the frame that brought the fragment, and whether a stale check has      *)
(* condemned it since.                                                     *)
(***************************************************************************)

NumFragments == 7
StaleSeconds == 2

Latitude == SPN("Latitude", 90, 64, 1, 0, -16, TRUE)
Longitude == SPN("Longitude", 170, 64, 1, 0, -16, TRUE)

\* PGN129029.__init__: the wrapped group decoder and the two "fake spns"
PGN129029 ==
    PGN(129029, 51, 28,
        [default |-> FALSE, items |-> (NoOpcode :> <<Latitude, Longitude>>)],
        None)
seq_num_spn == SPN("Sequence ID", 10, 4, 1, 0, 0, FALSE)
seq_group_spn == SPN("Sequence Group", 15, 4, 1, 0, 0, FALSE)

Fragment(payload_bytes, data) ==
    [data |-> data, group |-> payload_bytes[1] \div 16, stale |-> FALSE]

Condemned(seq_to_payload) ==
    [n \in DOMAIN seq_to_payload |-> [seq_to_payload[n] EXCEPT !.stale = TRUE]]

\* seq_to_payload.clear()
Clear(seq_to_payload) == EmptyDict

\* a stale group that keeps its fragments
DiscardStaleMut(seq_to_payload) == Condemned(seq_to_payload)
\* line 252: a stale sequence group loses all its buffered fragments
DiscardStale(seq_to_payload) == Clear(Condemned(seq_to_payload))

\* abs(info['timestamp'] - self.__group_to_timestamp[seq_grp]) > 2
IsStale(now, then) == Abs(now - then) > StaleSeconds

\* the payload with its sequence byte kept
SkipFirstMut(payload_bytes) == payload_bytes
\* info['payload_bytes'][1:]
SkipFirst(payload_bytes) == Tail(payload_bytes)

\* for seq_num in xrange(7): all_payload_bytes.extend(seq_to_payload[seq_num])
RECURSIVE Assemble(_, _)
Assemble(seq_to_payload, n) ==
    IF n = NumFragments THEN <<>>
    ELSE seq_to_payload[n].data \o Assemble(seq_to_payload, n + 1)

\* the low 4 bits of byte 0 taken for the sequence group
SeqGroupMut(payload_int) == AsInt(parse_from_int(seq_num_spn, payload_int))
\* self.__seq_group_spn.parse_from_int(payload_int)
SeqGroup(payload_int) == AsInt(parse_from_int(seq_group_spn, payload_int))

\* self.__group_to_seq_to_payload[seq_grp]: a defaultdict(lambda: {})
BufferOf(buffers, seq_grp) ==
    IF seq_grp \in DOMAIN buffers THEN buffers[seq_grp] ELSE EmptyDict

\* PGN129029.parse_from_info_dict: what the call returns or raises and logs,
\* the two dictionaries after it, and what it did (did: the sequence group
\* and number it read, whether it found the group stale and how many
\* fragments it then discarded; used: the fragments an assembly was built from).
PGN129029_parse_from_info_dict(timestamps, buffers, info) ==
    LET payload_int == info.payload_int
        seq_grp     == SeqGroup(payload_int)
        stale       == /\ seq_grp \in DOMAIN timestamps
                       /\ IsStale(info.timestamp, timestamps[seq_grp])
        buffers1    == IF stale
                       THEN DictSet(buffers, seq_grp,
                                    DiscardStale(BufferOf(buffers, seq_grp)))
                       ELSE buffers
        timestamps1 == DictSet(timestamps, seq_grp, info.timestamp)
        seq_num     == AsInt(parse_from_int(seq_num_spn, payload_int))
        stored      == DictSet(BufferOf(buffers1, seq_grp), seq_num,
                               Fragment(info.payload_bytes, SkipFirst(info.payload_bytes)))
        did         == [seq_grp   |-> seq_grp,
                        seq_num   |-> seq_num,
                        stale     |-> stale,
                        discarded |-> IF stale
                                      THEN Cardinality(DOMAIN BufferOf(buffers, seq_grp))
                                      ELSE 0]
    IN  IF Cardinality(DOMAIN stored) = NumFragments
        THEN IF \E n \in 0..(NumFragments - 1) : n \notin DOMAIN stored
             THEN \* KeyError: logged, None returned, the buffer cleared
                  [value      |-> None,
                   log        |-> <<"Couldn't find all the keys">>,
                   timestamps |-> timestamps1,
                   buffers    |-> DictSet(buffers1, seq_grp, Clear(stored)),
                   did        |-> did,
                   used       |-> {}]
             ELSE LET full_msg == [header_hex    |-> info.header,
                                   payload_bytes |-> Assemble(stored, 0)]
                      full_msg_info == msg_to_header_info_and_payload(full_msg, 0)
                  IN  [value      |-> IF Raised(full_msg_info) THEN full_msg_info
                                      ELSE PGN_parse_from_info_dict(
                                               PGN129029, full_msg_info).value,
                       log        |-> <<>>,
                       timestamps |-> timestamps1,
                       buffers    |-> DictSet(buffers1, seq_grp, Clear(stored)),
                       did        |-> did,
                       used       |-> {stored[n] : n \in DOMAIN stored}]
        ELSE [value      |-> None,
              log        |-> <<>>,
              timestamps |-> timestamps1,
              buffers    |-> DictSet(buffers1, seq_grp, stored),
              did        |-> did,
              used       |-> {}]

(***************************************************************************)
(* Parser: the registry.  The definition table (message_definitions.csv as *)
(* spanner's load_dict returns it) is a sequence of entries                *)
(* [pgn_def, spn_defs] in the order the dictionary yields them; pgn_def is *)
(* <<pgn_id, manufacturer, pgn_length_bytes, source_address>>.  An opcode  *)
(* cell is <<>> when empty ('') and <<k>> when it holds the number k.      *)
(***************************************************************************)

\* str.lower(), on the signal names of the model
Lower(name) == IF name = "PGN Usage Opcode" THEN "pgn usage opcode" ELSE name

IsSelector(spn_def) == Lower(spn_def.spn_name) = "pgn usage opcode"

\* SPN(pgn, spn_name, ..., scale=..., offset=..., units=...): signed is left False
SpnDecoder(spn_def) ==
    SPN(spn_def.spn_name, spn_def.spn_start_position, spn_def.spn_bit_length,
        spn_def.scale_factor, spn_def.offset, 0, FALSE)

\* opcode = spn_def['opcode']; if opcode == '': opcode = None
OpcodeKey(spn_def) ==
    IF spn_def.opcode = <<>> THEN NoOpcode ELSE Opcode(spn_def.opcode[1])

\* opcode_to_spns after the loop over spn_defs
GroupByOpcode(spn_defs) ==
    LET plain == SelectSeq(spn_defs, LAMBDA d : ~IsSelector(d))
    IN  [k \in {OpcodeKey(plain[i]) : i \in 1..Len(plain)} |->
            LET mine == SelectSeq(plain, LAMBDA d : OpcodeKey(d) = k)
            IN  [i \in 1..Len(mine) |-> SpnDecoder(mine[i])]]

\* opcode_parser after the loop over spn_defs: the last selector, or None
OpcodeParser(spn_defs) ==
    LET sel == SelectSeq(spn_defs, LAMBDA d : IsSelector(d))
    IN  IF sel = <<>> THEN None ELSE SpnDecoder(sel[Len(sel)])

\* any(opcode_to_spns.keys())
AnyOpcode(keys) == \E k \in keys : Truthy(k)

\* The loop over pgn_to_spn_specs.items(), from entry i on: the table it
\* leaves, or the RuntimeError of line 107.
RECURSIVE LoadDefinitions(_, _, _)
LoadDefinitions(table, entries, i) ==
    IF i > Len(entries) THEN [table |-> table]
    ELSE
    LET pgn_def        == entries[i].pgn_def
        opcode_to_spns == GroupByOpcode(entries[i].spn_defs)
        opcode_parser  == OpcodeParser(entries[i].spn_defs)
        decoder        == PGN(pgn_def[1], pgn_def[3], pgn_def[4],
                              [default |-> TRUE, items |-> opcode_to_spns],
                              opcode_parser)
    IN  IF DOMAIN opcode_to_spns = {} THEN LoadDefinitions(table, entries, i + 1)
        ELSE IF AnyOpcode(DOMAIN opcode_to_spns) /\ opcode_parser = None
        THEN Raise("RuntimeError")
        ELSE LoadDefinitions(
                 DictSet(table, <<pgn_def[1], pgn_def[4]>>,
                         [class |-> "PGN", obj |-> decoder]),
                 entries, i + 1)

\* Parser.__init__: the Parser object, or the exception that leaves it
Parser_init(entries) ==
    LET loaded == LoadDefinitions(EmptyDict, entries, 1)
    IN  IF Raised(loaded) THEN loaded
        ELSE [pgn_src_to_parser |->
                  DictSet(loaded.table, <<129029, 28>>,
                          [class |-> "PGN129029", obj |-> PGN129029])]

NotConstructed == [constructed |-> FALSE]
Constructed(p) == "pgn_src_to_parser" \in DOMAIN p

NoCall == [op |-> "none"]
Pending == [value |-> None, log |-> <<>>, route |-> "pending"]

(***************************************************************************)
(* Actions.                                                                *)
(***************************************************************************)

\* p = Parser()
Construct ==
    /\ parser = NotConstructed
    /\ parser' = Parser_init(defs)
    /\ call' = [op |-> "Parser"]
    /\ ret' = [value |-> IF Raised(parser') THEN parser' ELSE None,
               log |-> <<>>, route |-> "init"]
    /\ UNCHANGED <<defs, group_to_timestamp, group_to_seq_to_payload>>

\* p.parse_message(hex_str, timestamp)
ParseMessage(hex_str, timestamp) ==
    /\ Constructed(parser)
    /\ call' = [op |-> "parse_message", hex_str |-> hex_str, timestamp |-> timestamp]
    /\ \E info \in {msg_to_header_info_and_payload(hex_str, timestamp)} :
           IF Raised(info)
           THEN /\ ret' = [value |-> None, log |-> <<"Could not parse message">>,
                           route |-> "malformed"]
                /\ UNCHANGED <<parser, group_to_timestamp, group_to_seq_to_payload>>
           ELSE IF <<info.pgn, info.source>> \notin DOMAIN parser.pgn_src_to_parser
           THEN /\ ret' = [value |-> None, log |-> <<>>, route |-> "unmapped"]
                /\ UNCHANGED <<parser, group_to_timestamp, group_to_seq_to_payload>>
           ELSE IF parser.pgn_src_to_parser[<<info.pgn, info.source>>].class = "PGN129029"
           THEN \E r \in {PGN129029_parse_from_info_dict(
                              group_to_timestamp, group_to_seq_to_payload, info)} :
                    /\ ret' = [value |-> r.value, log |-> r.log,
                               route |-> "PGN129029", did |-> r.did, used |-> r.used]
                    /\ group_to_timestamp' = r.timestamps
                    /\ group_to_seq_to_payload' = r.buffers
                    /\ UNCHANGED parser
           ELSE \E r \in {PGN_parse_from_info_dict(
                              parser.pgn_src_to_parser[<<info.pgn, info.source>>].obj,
                              info)} :
                    /\ ret' = [value |-> r.value, log |-> <<>>, route |-> "PGN"]
                    /\ parser' = [parser EXCEPT
                                      !.pgn_src_to_parser[<<info.pgn, info.source>>].obj
                                          = r.self]
                    /\ UNCHANGED <<group_to_timestamp, group_to_seq_to_payload>>
    /\ UNCHANGED defs

\* msg_to_header_info_and_payload(hex_message, timestamp), called directly
DecodeHeader ==
    /\ call.op = "msg_to_header_info_and_payload"
    /\ ret = Pending
    /\ ret' = [value |-> msg_to_header_info_and_payload(call.hex_message, call.timestamp),
               log |-> <<>>, route |-> "direct"]
    /\ UNCHANGED <<defs, parser, group_to_timestamp, group_to_seq_to_payload, call>>

\* spn.parse_from_int(payload_int), called directly
ParseFromInt ==
    /\ call.op = "parse_from_int"
    /\ ret = Pending
    /\ ret' = [value |-> parse_from_int(call.self, call.payload_int),
               log |-> <<>>, route |-> "direct"]
    /\ UNCHANGED <<defs, parser, group_to_timestamp, group_to_seq_to_payload, call>>

(***************************************************************************)
(* Inputs.                                                                 *)
(***************************************************************************)

\* The 8 characters of a header, most significant first.
Hex8(n) == [i \in 1..8 |-> (n \div 16^(8 - i)) % 16]

\* The header with the given fields; top is bits 29 and 30, which no field
\* reads (bit 31 stays clear: the model's integers end at 2^31 - 1).
HeaderOf(top, priority, res_dp, pdu_pf, pdu_ps, src) ==
    Hex8(((((top * 8 + priority) * 4 + res_dp) * 256 + pdu_pf) * 256 + pdu_ps) * 256 + src)

Header129029 == HeaderOf(3, 0, 1, 248, 5, 28)      \* '61F8051C'
Header65267  == HeaderOf(3, 0, 0, 254, 243, 28)    \* '60FEF31C'
HeaderOther  == HeaderOf(0, 6, 0, 234, 28, 0)      \* '18EA1C00'
HeaderBad    == <<6, 1, 15, 8, NonHex, 5, 1, 12>>  \* '61F8g51C'

ExamplePayload == <<209, 238, 35, 151, 250, 124, 116, 75>>  \* 'D1EE2397FA7C744B'

\* SpecHeader: every combination of a few values of each header field.
HeaderInputs ==
    {HeaderOf(top, priority, res_dp, pdu_pf, pdu_ps, src) :
        top \in {0, 3}, priority \in {0, 5, 7}, res_dp \in 0..3,
        pdu_pf \in {0, 239, 240, 254, 255}, pdu_ps \in {0, 1, 243, 255},
        src \in {0, 28, 255}}
    \cup {HeaderBad}

HeaderCalls ==
    {[op |-> "msg_to_header_info_and_payload",
      hex_message |-> [header_hex |-> h, payload_bytes |-> p], timestamp |-> 0] :
        h \in HeaderInputs, p \in {<<>>, ExamplePayload}}

\* SpecSPN: payload integers 0..MaxPayloadInt, widths 1..MaxBits, positions
\* 1.0 to 1.MaxBitDigit, a few integer scales and offsets.
MaxPayloadInt == 127
MaxBits == 6
MaxBitDigit == 4

SpnCalls ==
    {[op |-> "parse_from_int",
      self |-> SPN("x", 10 + digit, nbits, scale, offset, 0, signed),
      payload_int |-> NatToBits(n)] :
        digit \in 0..MaxBitDigit, nbits \in 1..MaxBits, scale \in {1, 3, -2},
        offset \in {0, 5, -7}, signed \in BOOLEAN, n \in 0..MaxPayloadInt}

InitPure(calls) ==
    /\ defs = <<>>
    /\ parser = NotConstructed
    /\ group_to_timestamp = EmptyDict
    /\ group_to_seq_to_payload = EmptyDict
    /\ call \in calls
    /\ ret = Pending

InitHeader == InitPure(HeaderCalls)
NextHeader == DecodeHeader
SpecHeader == InitHeader /\ [][NextHeader]_vars

InitSPN == InitPure(SpnCalls)
NextSPN == ParseFromInt
SpecSPN == InitSPN /\ [][NextSPN]_vars

(***************************************************************************)
(* Inputs of the registry and the reassembly decoder.                      *)
(***************************************************************************)

\* A definition of pgn 65267, source 28: an opcode selector in bits 0..1 of
\* byte 1, one signal for opcode 1 and one for opcode 2.
SelectorDef ==
    [opcode |-> <<>>, spn_name |-> "PGN Usage Opcode", spn_start_position |-> 11,
     spn_bit_length |-> 2, scale_factor |-> 1, offset |-> 0]
SignalDef(name, opcode, position10) ==
    [opcode |-> opcode, spn_name |-> name, spn_start_position |-> position10,
     spn_bit_length |-> 8, scale_factor |-> 1, offset |-> 0]

DefaultDefs ==
    <<[pgn_def  |-> <<65267, "mfr", 8, 28>>,
       spn_defs |-> <<SelectorDef, SignalDef("a", <<1>>, 20), SignalDef("b", <<2>>, 30)>>]>>

\* Frames of PGN 129029: byte 0 is the sequence group (high 4 bits) and the
\* sequence number (low 4 bits), then the data bytes.
FragmentFrame(seq_grp, seq_num, data) ==
    [header_hex |-> Header129029, payload_bytes |-> <<seq_grp * 16 + seq_num>> \o data]

\* 7 data bytes that differ from fragment to fragment and from byte to byte;
\* variant 1 sets the top bit of each.
FragmentData(seq_num, variant) ==
    [i \in 1..7 |-> (17 * seq_num + 3 * i + 128 * variant) % 256]

\* SpecReasm: sequence group 8 receives the sequence numbers 0..MaxSeqNum
\* (fragment 2, which carries bytes of both signals, in MaxVariant + 1
\* variants) at times 0, 2 and 3 seconds; sequence group 0 receives its
\* fragment 0 at time 0.
MaxSeqNum == 7
MaxVariant == 1

Times == {0, StaleSeconds, StaleSeconds + 1}

Variants(seq_num) == 0..(IF seq_num = 2 THEN MaxVariant ELSE 0)

ReasmFrames ==
    UNION {{FragmentFrame(8, n, FragmentData(n, v)) : v \in Variants(n)} :
              n \in 0..MaxSeqNum}

ReasmInputs ==
    (ReasmFrames \X Times) \cup {<<FragmentFrame(0, 0, FragmentData(0, 0)), 0>>}

InitReady(entries) ==
    /\ defs = entries
    /\ parser = Parser_init(entries)
    /\ group_to_timestamp = EmptyDict
    /\ group_to_seq_to_payload = EmptyDict
    /\ call = NoCall
    /\ ret = Pending

InitReasm == InitReady(DefaultDefs)
NextReasm == \E input \in ReasmInputs : ParseMessage(input[1], input[2])
SpecReasm == InitReasm /\ [][NextReasm]_vars

\* SpecParser: the registry receives frames of every kind: fragments 0..6 of
\* sequence group 8 cut short (fragment 0 to every length 0..8, fragments 1
\* and 2 to 1 or 8 payload bytes, fragments 3..6 to 1), a fragment 7, a frame
\* of pgn 65267 with a known and one with an unknown opcode, a frame no
\* decoder is registered for, and a header that is not hex.
Lengths(seq_num) ==
    IF seq_num = 0 THEN 0..8 ELSE IF seq_num <= 2 THEN {1, 8} ELSE {1}

ParserFrames ==
    UNION {{[header_hex    |-> Header129029,
             payload_bytes |-> SubSeq(<<8 * 16 + n>> \o FragmentData(n, 0), 1, len)] :
                len \in Lengths(n)} : n \in 0..6}
    \cup {FragmentFrame(8, 7, FragmentData(7, 0))}
    \cup {[header_hex |-> Header65267, payload_bytes |-> <<b>> \o Tail(ExamplePayload)] :
             b \in {1, 3}}
    \cup {[header_hex |-> h, payload_bytes |-> ExamplePayload] :
             h \in {HeaderOther, HeaderBad}}

InitParser == InitReady(DefaultDefs)
NextParser == \E hex_str \in ParserFrames : ParseMessage(hex_str, 0)
SpecParser == InitParser /\ [][NextParser]_vars

\* SpecCfg: Parser() is built from a definition table and then decodes frames
\* of pgn 65267.  The table defines pgn 65267, source 28 by 1..MaxSpnDefs
\* signal records, alone or before or after a sound definition of pgn 65268.
MaxSpnDefs == 3

SpnDefChoices ==
    {SelectorDef,
     SignalDef("a", <<>>, 20), SignalDef("a", <<0>>, 20), SignalDef("b", <<1>>, 30)}

SpnDefLists == UNION {[1..len -> SpnDefChoices] : len \in 1..MaxSpnDefs}

SoundEntry ==
    [pgn_def  |-> <<65268, "mfr", 8, 28>>,
     spn_defs |-> <<SelectorDef, SignalDef("c", <<2>>, 20)>>]

CfgTables ==
    UNION {{<<e>>, <<e, SoundEntry>>, <<SoundEntry, e>>} :
              e \in {[pgn_def |-> <<65267, "mfr", 8, 28>>, spn_defs |-> l] :
                        l \in SpnDefLists}}

CfgFrames ==
    {[header_hex |-> Header65267, payload_bytes |-> <<b>> \o Tail(ExamplePayload)] :
        b \in {0, 1, 3}}
    \cup {[header_hex |-> HeaderOther, payload_bytes |-> ExamplePayload]}

InitCfg ==
    /\ defs \in CfgTables
    /\ parser = NotConstructed
    /\ group_to_timestamp = EmptyDict
    /\ group_to_seq_to_payload = EmptyDict
    /\ call = NoCall
    /\ ret = Pending

NextCfg ==
    \/ Construct
    \/ \E hex_str \in CfgFrames : ParseMessage(hex_str, 0)

SpecCfg == InitCfg /\ [][NextCfg]_vars

(***************************************************************************)
(* Properties of the header decoder, under SpecHeader.                     *)
(***************************************************************************)

\* bits lo .. lo + n - 1 of h
BitsOf(h, lo, n) == (h \div 2^lo) % 2^n

\* The 29-bit identifier with the given priority, pgn and source.
Encode(priority, pgn, source) == priority * 2^26 + pgn * 2^8 + source

HeaderDecoded ==
    /\ call.op = "msg_to_header_info_and_payload"
    /\ ret.route = "direct"
    /\ ~Raised(ret.value)

GivenHeader == HexToInt(call.hex_message.header_hex)

\* C3, as claimed: decoding any valid header and re-encoding priority, pgn and
\* source reproduces the header's low 29 bits.
C3_RoundTripAllHeaders ==
    HeaderDecoded =>
        Encode(ret.value.priority, ret.value.pgn, ret.value.source)
            = BitsOf(GivenHeader, 0, 29)

\* C3, amended: re-encoding reproduces the low 29 bits except bits 8..15
\* (pdu_specific), which are reproduced when pdu_format >= 240 and come back
\* as zero when pdu_format < 240.
C3_RoundTripButDestination ==
    HeaderDecoded =>
        LET pdu_pf == BitsOf(GivenHeader, 16, 8)
            pdu_ps == BitsOf(GivenHeader, 8, 8)
        IN  Encode(ret.value.priority, ret.value.pgn, ret.value.source)
                = BitsOf(GivenHeader, 0, 29)
                    - (IF pdu_pf >= 240 THEN 0 ELSE pdu_ps * 2^8)

\* C3 witness: a decoded broadcast header with every field non-zero, and one
\* bit above the identifier set, re-encodes to its identifier.
C3_Witness ==
    /\ HeaderDecoded
    /\ BitsOf(GivenHeader, 16, 8) >= 240
    /\ BitsOf(GivenHeader, 8, 8) # 0
    /\ BitsOf(GivenHeader, 24, 2) # 0
    /\ BitsOf(GivenHeader, 26, 3) = 7
    /\ BitsOf(GivenHeader, 29, 2) # 0
    /\ Encode(ret.value.priority, ret.value.pgn, ret.value.source)
           = BitsOf(GivenHeader, 0, 29)

\* C4: the pgn is (reserved_data_page << 16) | (pdu_format << 8) | pdu_specific
\* when pdu_format >= 240 and has low byte 0 when pdu_format < 240; source is
\* bits 0..7 and priority bits 26..28.
C4_BroadcastRule ==
    HeaderDecoded =>
        LET pdu_pf == BitsOf(GivenHeader, 16, 8)
            pdu_ps == BitsOf(GivenHeader, 8, 8)
            res_dp == BitsOf(GivenHeader, 24, 2)
        IN  /\ ret.value.pgn = IF pdu_pf >= 240
                               THEN res_dp * 2^16 + pdu_pf * 2^8 + pdu_ps
                               ELSE res_dp * 2^16 + pdu_pf * 2^8
            /\ ret.value.source = BitsOf(GivenHeader, 0, 8)
            /\ ret.value.priority = BitsOf(GivenHeader, 26, 3)

\* C4 witness: the end-to-end example, '60FEF31C' 'D1EE2397FA7C744B'.
C4_Witness ==
    /\ HeaderDecoded
    /\ call.hex_message = [header_hex |-> Header65267, payload_bytes |-> ExamplePayload]
    /\ ret.value.pgn = 65267
    /\ ret.value.source = 28
    /\ ret.value.priority = 0
    /\ ret.value.payload_int = BytesToInt(ExamplePayload)

(***************************************************************************)
(* Properties of the bitfield decoder, under SpecSPN.                      *)
(***************************************************************************)

SpnParsed == call.op = "parse_from_int" /\ ret.route = "direct"

\* The field of the call as an unsigned number.
GivenField ==
    BitsOf(BitsToNat(call.payload_int), call.self.pos, call.self.nbits)

\* C8: parse_from_int returns x * scale + offset, x being the field for an
\* unsigned signal and the field minus 2^w exactly when its bit w - 1 is set
\* for a signed one; with scale 1 and offset 0 an unsigned result lies in
\* 0..2^w - 1, a signed one in -2^(w-1)..2^(w-1) - 1, and a signed field of
\* all ones is -1.
C8_SignedExtraction ==
    SpnParsed =>
        LET w == call.self.nbits
            u == GivenField
            x == IF call.self.signed /\ BitsOf(u, w - 1, 1) = 1 THEN u - 2^w ELSE u
            v == ToInt(ret.value)
        IN  /\ v = x * call.self.scale + call.self.offset
            /\ [neg |-> ret.value.neg, mag |-> ret.value.mag] = FromInt(v)
            /\ (call.self.scale = 1 /\ call.self.offset = 0) =>
                   /\ ~call.self.signed => v \in 0..(2^w - 1)
                   /\ call.self.signed => v \in (0 - 2^(w - 1))..(2^(w - 1) - 1)
                   /\ (call.self.signed /\ u = 2^w - 1) => v = 0 - 1

\* C8 witness: a signed field of three or more bits, all set, at a non-zero
\* bit position of a payload with other bits set, decoded as -1.
C8_Witness ==
    /\ SpnParsed
    /\ call.self.signed
    /\ call.self.nbits >= 3
    /\ call.self.pos > 0
    /\ call.self.scale = 1
    /\ call.self.offset = 0
    /\ GivenField = 2^call.self.nbits - 1
    /\ BitsToNat(call.payload_int) # GivenField * 2^call.self.pos
    /\ ToInt(ret.value) = 0 - 1

(***************************************************************************)
(* Properties of the reassembly decoder, under SpecReasm.                  *)
(***************************************************************************)

Reassembling == call.op = "parse_message" /\ ret.route = "PGN129029"

\* The sequence group and number of a frame: the high and the low 4 bits of
\* payload byte 0.
GroupOfFrame(hex_str) == hex_str.payload_bytes[1] \div 16
NumberOfFrame(hex_str) == hex_str.payload_bytes[1] % 16

\* What the group decoder makes of a header followed by the given bytes.
DirectDecode(header_hex, payload_bytes) ==
    PGN_parse_from_info_dict(
        PGN129029,
        msg_to_header_info_and_payload(
            [header_hex |-> header_hex, payload_bytes |-> payload_bytes], 0)).value

\* C1, one call: a fragment that is not stale and completes 0..6 returns what
\* the group decoder returns for the header and the data bytes of fragments
\* 0..6 in sequence-number order; one that leaves some of 0..6 missing, with
\* nothing but 0..6 buffered, returns None.
C1_Step ==
    (call'.op = "parse_message" /\ ret'.route = "PGN129029") =>
        LET g      == GroupOfFrame(call'.hex_str)
            n      == NumberOfFrame(call'.hex_str)
            before == BufferOf(group_to_seq_to_payload, g)
            have   == DOMAIN before \cup {n}
            data(k) == IF k = n THEN SubSeq(call'.hex_str.payload_bytes, 2, 8)
                       ELSE before[k].data
            fresh  == \/ g \notin DOMAIN group_to_timestamp
                      \/ Abs(call'.timestamp - group_to_timestamp[g]) <= 2
        IN  fresh =>
                IF have = 0..6
                THEN /\ "spn_vals" \in DOMAIN ret'.value
                     /\ ret'.value.spn_vals =
                            DirectDecode(call'.hex_str.header_hex,
                                         data(0) \o data(1) \o data(2) \o data(3)
                                             \o data(4) \o data(5) \o data(6)).spn_vals
                ELSE have \subseteq 0..6 => ret'.value = None

C2_StaleEviction ==
    /\ (Reassembling /\ ret.did.stale) =>
           LET g == GroupOfFrame(call.hex_str)
               n == NumberOfFrame(call.hex_str)
           IN  /\ ret.value = None
               /\ DOMAIN group_to_seq_to_payload[g] = {n}
               /\ group_to_seq_to_payload[g][n].data
                      = SubSeq(call.hex_str.payload_bytes, 2, 8)
    /\ \A g \in DOMAIN group_to_seq_to_payload :
           \A n \in DOMAIN group_to_seq_to_payload[g] :
               ~group_to_seq_to_payload[g][n].stale
    /\ Reassembling => \A f \in ret.used : ~f.stale

\* C2 witness: four fragments of a group were buffered, and a fragment 0 more
\* than 2 seconds later discarded them.
C2_Witness ==
    /\ Reassembling
    /\ ret.did.stale
    /\ ret.did.discarded = 4
    /\ NumberOfFrame(call.hex_str) = 0
    /\ ret.value = None
    /\ DOMAIN group_to_seq_to_payload[GroupOfFrame(call.hex_str)] = {0}

\* C7, as claimed: the missing-fragment path never runs (nothing is logged),
\* and a call that returns None leaves its fragment buffered.
C7_NoMissingFragment ==
    Reassembling =>
        /\ ret.log = <<>>
        /\ ret.value = None =>
               NumberOfFrame(call.hex_str)
                   \in DOMAIN group_to_seq_to_payload[GroupOfFrame(call.hex_str)]

\* C9, one call: handling a fragment of one sequence group leaves the buffer
\* and the last timestamp of every other group as they were, and an assembly
\* is built from fragments received for that one group.
C9_Step ==
    (call'.op = "parse_message" /\ ret'.route = "PGN129029") =>
        /\ \A h \in DOMAIN group_to_timestamp :
               h # GroupOfFrame(call'.hex_str) =>
                   /\ h \in DOMAIN group_to_timestamp'
                   /\ group_to_timestamp'[h] = group_to_timestamp[h]
                   /\ h \in DOMAIN group_to_seq_to_payload'
                   /\ group_to_seq_to_payload'[h] = group_to_seq_to_payload[h]
        /\ \A f \in ret'.used : f.group = GroupOfFrame(call'.hex_str)

\* C9: sequence groups are isolated from one another.
C9_GroupIsolation == [][C9_Step]_vars

\* C9 witness: an assembly of group 8 completed while group 0 has a fragment
\* buffered.
C9_Witness ==
    /\ Reassembling
    /\ GroupOfFrame(call.hex_str) = 8
    /\ "spn_vals" \in DOMAIN ret.value
    /\ 0 \in DOMAIN group_to_seq_to_payload
    /\ DOMAIN group_to_seq_to_payload[0] = {0}
    /\ group_to_seq_to_payload[8] = EmptyDict

(***************************************************************************)
(* Properties of the registry, under SpecParser and SpecCfg.               *)
(***************************************************************************)

\* C6, as claimed: parse_message returns a record or None for every frame and
\* never raises.
C6_NeverRaises == call.op = "parse_message" => ~Raised(ret.value)

\* A definition with a signal that declares an opcode and with no opcode
\* selector.
LacksSelector(entry) ==
    /\ \E i \in 1..Len(entry.spn_defs) :
           /\ Lower(entry.spn_defs[i].spn_name) # "pgn usage opcode"
           /\ entry.spn_defs[i].opcode # <<>>
    /\ \A i \in 1..Len(entry.spn_defs) :
           Lower(entry.spn_defs[i].spn_name) # "pgn usage opcode"

\* C5, as claimed: building the registry from a table with a definition that
\* declares an opcode (0 included) and no opcode selector fails.
C5_ConfigErrorAtConstruction ==
    (parser # NotConstructed /\ \E i \in 1..Len(defs) : LacksSelector(defs[i]))
        => Raised(parser)

\* C10, as claimed: decoding leaves every decoder's opcode-to-signal-set
\* table as construction built it.
C10_ConfigUnchanged ==
    Constructed(parser) => parser = Parser_init(defs)

=============================================================================
